---- MODULE Spec2Model ----
(***************************************************************************)
(* A model of the multi-source retrieval aggregator of FourSight           *)
(* (src/utils/mcp.py) and of the retry loops and the query translator of   *)
(* src/utils/api_utils.py.                                                 *)
(*                                                                         *)
(* The module holds several specifications over one set of variables:      *)
(*   SpecRetry      the retry loops of api_utils (one step per attempt)    *)
(*   SpecRetryFair  SpecRetry, where a started loop goes on running        *)
(*   SpecTranslate  the two query translators, applied to bounded texts    *)
(*   SpecFormat     the discussion-board formatter and the product-launch  *)
(*                  ranking, applied to bounded listings                   *)
(*   SpecCache      stores and reads of the adapters' cache as time passes *)
(*   SpecKey        the cache keys of two adapter calls                    *)
(*   Spec           get_context: the four adapters, the cache, the clock   *)
(*   SpecTasks      one get_context whose four adapter calls run as tasks  *)
(*                  that are suspended and resumed between their requests  *)
(* Each specification leaves the variables of the others at their initial  *)
(* values.  src/improved_filtering.py is not called by any adapter and is  *)
(* not part of the model.                                                  *)
(***************************************************************************)
EXTENDS Integers, Sequences, FiniteSets, TLC

VARIABLES
    \* ---- retry loops of api_utils.py
    rfn,        \* the function being run: "search_web", "search_arxiv", ...
    rkey,       \* whether the function's API key is set in the environment
    rpc,        \* "idle" | "loop" | "done"
    attempt,    \* the loop variable `attempt` of the next iteration
    requests,   \* HTTP requests issued by this invocation
    sleeps,     \* the time.sleep() calls of this invocation: <<attempt, seconds>>
    rlast,      \* the outcome of the last HTTP request ("none" before the first)
    rresult     \* "none" | "parsed" | "sentinel" | "raised"

retryVars == <<rfn, rkey, rpc, attempt, requests, sleeps, rlast, rresult>>

\* ---- query translators (mcp._translate_to_english, api_utils.translate_to_english_smart)
VARIABLES
    trFn,       \* "mcp" | "smart": which translator is applied
    trIn,       \* the input text, a sequence of words
    trOut,      \* the returned text (<<>> before the call)
    trPc        \* "ready" | "done"

trVars == <<trFn, trIn, trOut, trPc>>

\* ---- discussion-board formatter (mcp._format_reddit_results)
VARIABLES
    fmtPosts,   \* the posts of the listing, in upstream order
    fmtQuery,   \* original_query
    fmtOrder,   \* the query terms in the order the term set is enumerated
    fmtMax,     \* max_results
    fmtOut,     \* [raised, list]: the returned records
    fmtPc       \* "off" | "ready" | "done"

redditVars == <<fmtPosts, fmtQuery, fmtOrder, fmtMax, fmtOut, fmtPc>>

\* ---- product-launch de-duplication and ranking (the end of
\* ---- mcp.search_producthunt, mcp._rank_producthunt_results)
VARIABLES
    rankIn,     \* the records handed to the step, in input order, as they were then
    rankQuery,  \* the query the keywords are extracted from
    rankOut,    \* [raised, list]: the ranked records
    rankPc,     \* "off" | "ready" | "done" (ranked) | "deduped"
    rankDicts,  \* the dicts of the input list, in input order, as they are now
    unique_results  \* the list the de-duplication loop built (<<>> before it)

rankVars == <<rankIn, rankQuery, rankOut, rankPc, rankDicts, unique_results>>

\* ---- the aggregator (mcp.ModelContextProtocol.get_context and its adapters)
VARIABLES
    env_producthunt,        \* PRODUCTHUNT_API_KEY is set in the environment
    serper_available,       \* self.serper_available
    producthunt_available,  \* self.producthunt_available
    producthunt_token,      \* self.producthunt_token is set (not None)
    cache,                  \* self._cache: key -> [timestamp, data]
    now,                    \* time.time()
    pc,                     \* where get_context stands; "idle" between calls
    argMax,                 \* max_results: the argument of the running (or last) call
    ctxResults,             \* the dict get_context builds: source -> list
    accResults,             \* all_results: the list an adapter accumulates over its requests
    topicsLeft,             \* topic requests the product-launch adapter still sends
    requested,              \* sources that sent an HTTP request in this call
    ok200,                  \* one of the requests was answered with status 200
    cacheHits,                   \* sources answered from the cache in this call
    raisedIn,               \* adapters that raised into get_context in this call
    calls,                  \* get_context calls started so far
    started,                \* time.time() when the running (or last) call began
    httpSent,               \* HTTP requests sent by the adapter that runs (or ran last)
    httpFailed,             \* one of them was not answered with status 200
    prev                    \* the previous completed call: <<>> or <<[args, start, results]>>

aggVars == <<env_producthunt, serper_available, producthunt_available, producthunt_token,
             cache, now, pc, argMax, ctxResults, accResults, topicsLeft,
             requested, ok200, cacheHits, raisedIn, calls, started, httpSent, httpFailed, prev>>

\* ---- the cache on its own (mcp._get_from_cache, mcp._set_cache)
VARIABLES
    cLast,      \* the last operation: "none" | "store" | "read" | "tick"
    cKey,       \* the key of the last read
    cRead,      \* what the last read returned: [found, data]
    lastStore,  \* key -> [t, v]: when the key was last stored, and the value
    ticks       \* how often the clock has moved

cacheVars == <<cLast, cKey, cRead, lastStore, ticks>>

\* ---- cache keys (mcp._get_cache_key as the four adapters call it)
VARIABLES
    keyCalls,   \* two adapter calls: <<call, call>>
    keyOut,     \* their cache keys (<<>> before they are computed)
    keyPc       \* "off" | "ready" | "done"

keyVars == <<keyCalls, keyOut, keyPc>>

\* ---- the four adapter calls of one get_context as one task per source
VARIABLES
    cur,        \* the source whose task is running; "none" outside a task run
    saved       \* source -> the locals of its task while another task runs

taskVars == <<cur, saved>>

vars == <<retryVars, trVars, redditVars, rankVars, aggVars, cacheVars, keyVars, taskVars>>

(***************************************************************************)
(* Generic helpers.                                                        *)
(***************************************************************************)
Min(a, b) == IF a <= b THEN a ELSE b

RECURSIVE Pow2(_)
Pow2(n) == IF n = 0 THEN 1 ELSE 2 * Pow2(n - 1)

\* A word of a query: its lower-case spelling and whether its first letter
\* is upper case.
W(s) == [w |-> s, cap |-> FALSE]
Cap(s) == [w |-> s, cap |-> TRUE]

(***************************************************************************)
(* api_utils.py: the retry loops.                                          *)
(***************************************************************************)
\* max_retries = 3 in each of the four functions
max_retries == 3

RetryFns == {"search_web", "search_arxiv", "call_groq_api", "call_google_api"}

\* Functions that first read an API key and return at once without it.
KeyedFns == {"search_web", "call_groq_api", "call_google_api"}

\* What one HTTP request can come back with:
\*   ok            status 200, body parses and has the expected structure
\*   ok_invalid    status 200, body parses but lacks the expected structure
\*                 (no 'choices' / no 'candidates'; an empty arXiv feed)
\*   ok_unparsable status 200, parsing the body raises
\*   s429, s400, s500  the status code
\*   timeout       requests.exceptions.Timeout
\*   conn_error    any other exception of requests
Responses == {"ok", "ok_invalid", "ok_unparsable", "s429", "s400", "s500",
              "timeout", "conn_error"}

\* The effect of one loop iteration on the loop, as the code of each function
\* decides it: [act |-> "return" | "continue" | "fallthrough",
\*              res |-> result kind on return, sleep |-> seconds or 0]
\* "fallthrough" is an except branch on the last attempt: no continue, the
\* for statement simply moves on.
SearchWebIteration(resp, k) ==
    CASE resp = "ok"         -> [act |-> "return", res |-> "parsed", sleep |-> 0]
      [] resp = "ok_invalid" -> [act |-> "return", res |-> "parsed", sleep |-> 0]
      [] resp = "s429"       -> [act |-> "continue", res |-> "none", sleep |-> Pow2(k)]
      [] resp \in {"s400", "s500"}
                             -> [act |-> "return", res |-> "sentinel", sleep |-> 0]
      [] OTHER               -> IF k < max_retries - 1
                                THEN [act |-> "continue", res |-> "none", sleep |-> 1]
                                ELSE [act |-> "fallthrough", res |-> "none", sleep |-> 0]

\* A loop body that lets the exception of the last attempt out.
CallGroqReraising(resp, k) ==
    CASE resp = "ok"         -> [act |-> "return", res |-> "parsed", sleep |-> 0]
      [] resp = "ok_invalid" -> [act |-> "return", res |-> "sentinel", sleep |-> 0]
      [] resp = "s429"       -> [act |-> "continue", res |-> "none", sleep |-> Pow2(k)]
      [] resp \in {"s400", "s500"}
                             -> [act |-> "return", res |-> "sentinel", sleep |-> 0]
      [] OTHER               -> IF k < max_retries - 1
                                THEN [act |-> "continue", res |-> "none", sleep |-> 2]
                                ELSE [act |-> "return", res |-> "raised", sleep |-> 0]

CallGroqIteration(resp, k) ==
    CASE resp = "ok"         -> [act |-> "return", res |-> "parsed", sleep |-> 0]
      [] resp = "ok_invalid" -> [act |-> "return", res |-> "sentinel", sleep |-> 0]
      [] resp = "s429"       -> [act |-> "continue", res |-> "none", sleep |-> Pow2(k)]
      [] resp \in {"s400", "s500"}
                             -> [act |-> "return", res |-> "sentinel", sleep |-> 0]
      [] OTHER               -> IF k < max_retries - 1
                                THEN [act |-> "continue", res |-> "none", sleep |-> 2]
                                ELSE [act |-> "fallthrough", res |-> "none", sleep |-> 0]

CallGoogleIteration(resp, k) ==
    CASE resp = "ok"         -> [act |-> "return", res |-> "parsed", sleep |-> 0]
      [] resp = "ok_invalid" -> [act |-> "return", res |-> "sentinel", sleep |-> 0]
      [] resp = "s429"       -> [act |-> "continue", res |-> "none", sleep |-> Pow2(k)]
      [] resp \in {"s400", "s500"}
                             -> [act |-> "return", res |-> "sentinel", sleep |-> 0]
      [] OTHER               -> IF k < max_retries - 1
                                THEN [act |-> "continue", res |-> "none", sleep |-> 2]
                                ELSE [act |-> "fallthrough", res |-> "none", sleep |-> 0]

SearchArxivIteration(resp, k) ==
    CASE resp = "ok"            -> [act |-> "return", res |-> "parsed", sleep |-> 0]
      [] resp = "ok_invalid"    -> [act |-> "return", res |-> "sentinel", sleep |-> 0]
      [] resp = "ok_unparsable" -> [act |-> "return", res |-> "sentinel", sleep |-> 0]
      [] resp \in {"s429", "s400", "s500"}
                                -> IF k < max_retries - 1
                                   THEN [act |-> "continue", res |-> "none", sleep |-> 2]
                                   ELSE [act |-> "return", res |-> "sentinel", sleep |-> 0]
      [] OTHER                  -> IF k < max_retries - 1
                                   THEN [act |-> "continue", res |-> "none", sleep |-> 2]
                                   ELSE [act |-> "fallthrough", res |-> "none", sleep |-> 0]

Iteration(fn, resp, k) ==
    CASE fn = "search_web"      -> SearchWebIteration(resp, k)
      [] fn = "search_arxiv"    -> SearchArxivIteration(resp, k)
      [] fn = "call_groq_api"   -> CallGroqIteration(resp, k)
      [] OTHER                  -> CallGoogleIteration(resp, k)

\* A loop that runs one iteration too many.
LoopRunsOnceMore(k) == k <= max_retries

\* for attempt in range(max_retries): whether the loop runs iteration k
LoopRuns(k) == k < max_retries

RetryInit ==
    /\ rfn = "none"
    /\ rkey = FALSE
    /\ rpc = "idle"
    /\ attempt = 0
    /\ requests = 0
    /\ sleeps = <<>>
    /\ rlast = "none"
    /\ rresult = "none"

TrIdle ==
    /\ trFn = "none"
    /\ trIn = <<>>
    /\ trOut = <<>>
    /\ trPc = "idle"

\* A caller invokes one of the four functions. A keyed function without its
\* key returns its sentinel before the loop.
RetryCall ==
    /\ rpc \in {"idle", "done"}
    /\ \E fn \in RetryFns, key \in BOOLEAN :
        /\ rfn' = fn
        /\ rkey' = key
        /\ attempt' = 0
        /\ requests' = 0
        /\ sleeps' = <<>>
        /\ rlast' = "none"
        /\ IF fn \in KeyedFns /\ ~key
           THEN rpc' = "done" /\ rresult' = "sentinel"
           ELSE rpc' = "loop" /\ rresult' = "none"

\* One iteration of the for loop: the request, the handling of its outcome,
\* the sleep if any, and the loop's own step to the next iteration or out.
RetryAttempt ==
    /\ rpc = "loop"
    /\ LoopRuns(attempt)
    /\ \E resp \in Responses :
        LET it == Iteration(rfn, resp, attempt) IN
        /\ requests' = requests + 1
        /\ rlast' = resp
        /\ sleeps' = IF it.sleep > 0 THEN Append(sleeps, <<attempt, it.sleep>>)
                     ELSE sleeps
        /\ IF it.act = "return"
           THEN /\ rpc' = "done"
                /\ rresult' = it.res
                /\ attempt' = attempt
           ELSE /\ attempt' = attempt + 1
                /\ IF LoopRuns(attempt + 1)
                   THEN rpc' = "loop" /\ rresult' = "none"
                   ELSE rpc' = "done" /\ rresult' = "sentinel"
    /\ UNCHANGED <<rfn, rkey>>

(***************************************************************************)
(* Texts of records (titles, bodies, snippets).                            *)
(*                                                                         *)
(* A text is a sequence of chunks [w, n]: a lower-case word w taking n     *)
(* characters, the blank before it counted in n.  A chunk with w = "#" is  *)
(* n characters of filler that match no search term.  len(text) is the sum *)
(* of the n.  `term in text` holds when a word of the text is the term     *)
(* or has the term as a substring (SubWords).                              *)
(***************************************************************************)
Ch(s, n) == [w |-> s, n |-> n]
Pad(n) == [w |-> "#", n |-> n]

RECURSIVE TextLen(_)
TextLen(t) == IF t = <<>> THEN 0 ELSE t[1].n + TextLen(Tail(t))

\* t[:k]; a word cut in two leaves filler
RECURSIVE TakeChars(_, _)
TakeChars(t, k) ==
    IF t = <<>> \/ k <= 0 THEN <<>>
    ELSE IF t[1].n <= k THEN <<t[1]>> \o TakeChars(Tail(t), k - t[1].n)
         ELSE <<Pad(k)>>

Ellipsis == Ch("...", 3)

\* The pairs <<a, b>> of distinct pool words with a a substring of b.
SubWords == {<<"health", "healthcare">>, <<"crypto", "cryptocurrency">>,
             <<"ai", "blockchain">>}

HasWord(t, word) == \E i \in DOMAIN t : t[i].w = word \/ <<word, t[i].w>> \in SubWords

\* "a b" in text
HasPhrase(t, a, b) == \E i \in 1..(Len(t) - 1) : t[i].w = a /\ t[i + 1].w = b

\* len(word) of the words a query is made of
WordChars(word) ==
    CASE word \in {"in", "na", "ai"} -> 2
      [] word \in {"the", "xyz"} -> 3
      [] word = "saude" -> 5
      [] word \in {"health", "future"} -> 6
      [] word = "inovacao" -> 8
      [] OTHER -> 10

\* sorted(xs, key=..., reverse=True): descending and stable, so that
\* elements with equal keys keep their input order.  greater is the set of
\* the pairs <<i, j>> of positions with key(xs[i]) > key(xs[j]).
SortedReverse(xs, greater) ==
    LET n == Len(xs)
        Pos(i) == 1 + Cardinality({j \in 1..n :
                        \/ <<j, i>> \in greater
                        \/ (<<i, j>> \notin greater /\ j < i)})
    IN [p \in 1..n |-> xs[CHOOSE i \in 1..n : Pos(i) = p]]

\* xs[:k] for k >= 0
Take(xs, k) == SubSeq(xs, 1, Min(k, Len(xs)))

\* All enumeration orders of a finite set.
Orders(S) == {f \in [1..Cardinality(S) -> S] : \A x \in S : \E i \in DOMAIN f : f[i] = x}

(***************************************************************************)
(* The discussion-board formatter, MCPClient._format_reddit_results, and   *)
(* its relevance score, MCPClient._calculate_reddit_relevance.             *)
(*                                                                         *)
(* Scores are exact rationals in units of 1/180: with one, two or three    *)
(* query terms every summand of the score is a whole number of units       *)
(* (0.3 = 54, 0.4 = 72, 0.2 = 36, 0.1 = 18, 0.1/3 = 6, 1.0 = 180).         *)
(***************************************************************************)
ScoreUnit == 180
RelevanceCutoff == (3 * ScoreUnit) \div 10
SnippetLimit == 500

\* {term.lower() for term in original_query.split() if len(term) > 3}
QueryTerms(query) == {query[i].w : i \in {j \in DOMAIN query : WordChars(query[j].w) > 3}}

\* relevant_subreddits
RelevantSubreddits(term) ==
    CASE term = "ai" -> {"artificial", "machinelearning", "ainews", "singularity", "deeplearning", "datascience"}
      [] term = "intelligence" -> {"artificial", "machinelearning", "ainews", "singularity", "deeplearning"}
      [] term = "education" -> {"education", "edtech", "onlinecourses", "teaching", "learnprogramming"}
      [] term = "health" -> {"healthtech", "medicine", "healthcare", "health", "medical"}
      [] term = "blockchain" -> {"cryptotechnology", "blockchain", "cryptocurrency", "bitcoin"}
      [] term = "technology" -> {"technology", "tech", "futurology", "gadgets"}
      [] OTHER -> {}

quality_indicators ==
    {"research", "study", "analysis", "report", "survey", "data", "statistics",
     "expert", "professional", "official", "review", "comparison", "guide"}

\* terms is the query-term set in the order the interpreter enumerates it
CalculateRedditRelevance(title, content, subreddit, terms) ==
    IF terms = <<>> THEN ScoreUnit \div 2
    ELSE
    LET n == Len(terms)
        termSet == {terms[i] : i \in 1..n}
        sub == IF \E t \in termSet : subreddit \in RelevantSubreddits(t)
               THEN RelevanceCutoff ELSE 0
        title_matches == Cardinality({t \in termSet : HasWord(title, t)})
        content_matches == Cardinality({t \in termSet : HasWord(content, t)})
        titlePhrases == Cardinality({i \in 1..(n - 1) : HasPhrase(title, terms[i], terms[i + 1])})
        contentPhrases == Cardinality({i \in 1..(n - 1) : HasPhrase(content, terms[i], terms[i + 1])})
        penalty == IF TextLen(content) < 50 /\ title_matches = 0
                   THEN (2 * ScoreUnit) \div 10 ELSE 0
        quality_matches == Cardinality({q \in quality_indicators :
                                HasWord(title, q) \/ HasWord(content, q)})
        score == sub
                 + (4 * ScoreUnit * title_matches) \div (10 * n)
                 + (2 * ScoreUnit * content_matches) \div (10 * n)
                 + titlePhrases * ((2 * ScoreUnit) \div 10)
                 + contentPhrases * (ScoreUnit \div 10)
                 - penalty
                 + (ScoreUnit * Min(quality_matches, 3)) \div 30
    IN IF score < 0 THEN 0 ELSE Min(ScoreUnit, score)

\* One post of a listing -> one record; the caller skips posts without 'data'.
FormatRedditPost(post, terms) ==
    LET text == IF post.selftext # <<>> THEN post.selftext ELSE post.title
        snippet == IF TextLen(text) > SnippetLimit
                   THEN Append(TakeChars(text, SnippetLimit - 3), Ellipsis)
                   ELSE text
    IN [title |-> post.title,
        url |-> "https://www.reddit.com" \o post.permalink,
        snippet |-> snippet,
        score |-> post.score,
        relevance |-> CalculateRedditRelevance(post.title, snippet, post.subreddit, terms),
        source |-> "Reddit"]

\* A comparison that forgets the vote score.
RelevanceOnlyGreater(a, b) == a.relevance > b.relevance

\* key=lambda x: (x.get('relevance', 0), x.get('score', 0))
RedditGreater(a, b) ==
    \/ a.relevance > b.relevance
    \/ (a.relevance = b.relevance /\ a.score > b.score)

AboveCutoff(r) == r.relevance > RelevanceCutoff

\* Result [raised, list]: raised when datetime.fromtimestamp rejects a post
FormatRedditResults(posts, max_results, terms) ==
    LET withData == SelectSeq(posts, LAMBDA p : p.data)
    IN IF \E i \in DOMAIN withData : ~withData[i].created_ok
       THEN [raised |-> TRUE, list |-> <<>>]
       ELSE
       LET results == [i \in DOMAIN withData |-> FormatRedditPost(withData[i], terms)]
           sorted_results == SortedReverse(results,
                                {ij \in (DOMAIN results) \X (DOMAIN results) :
                                    RedditGreater(results[ij[1]], results[ij[2]])})
           kept == SelectSeq(sorted_results, AboveCutoff)
           filtered_results == IF Len(kept) < max_results \div 2
                               THEN sorted_results ELSE kept
       IN [raised |-> FALSE, list |-> Take(filtered_results, max_results)]

\* Posts a listing can hold.  data = FALSE: a child without 'data';
\* created_ok = FALSE: a post whose created_utc is null.
RedditPost(title, selftext, subreddit, score, permalink) ==
    [data |-> TRUE, title |-> title, selftext |-> selftext, subreddit |-> subreddit,
     score |-> score, created_ok |-> TRUE, permalink |-> permalink]

TitleLaptops == <<Ch("best", 4), Ch("budget", 7), Ch("laptops", 8), Ch("2024", 5)>>
TitleAIHealth == <<Ch("artificial", 10), Ch("intelligence", 13), Ch("in", 3), Ch("healthcare", 11)>>
TitleStudy == <<Ch("research", 8), Ch("study", 6), Ch("analysis", 9)>>

PostLaptops == RedditPost(TitleLaptops, <<>>, "laptops", 900, "/r/laptops/1")
PostAIHealth == RedditPost(TitleAIHealth, <<Ch("healthcare", 10), Pad(50)>>, "artificial", 10, "/r/artificial/2")
PostStudy == RedditPost(TitleStudy, <<Pad(60)>>, "artificial", 5, "/r/artificial/3")
PostLong == RedditPost(<<Ch("healthcare", 10)>>, <<Pad(495), Ch("healthcare", 11)>>, "medicine", 10, "/r/medicine/4")
PostNoTitle == RedditPost(<<>>, <<Pad(SnippetLimit)>>, "", 900, "")
PostNoData == [PostLaptops EXCEPT !.data = FALSE]
PostNullTime == [PostAIHealth EXCEPT !.created_ok = FALSE]

RedditPosts == {PostLaptops, PostAIHealth, PostStudy, PostLong, PostNoTitle, PostNoData, PostNullTime}

QueryAIHealth == <<W("artificial"), W("intelligence"), W("in"), W("healthcare")>>
QueryBlockchainTech == <<W("blockchain"), W("technology")>>
QueryShortWords == <<W("ai"), W("in"), W("the")>>
RedditQueries == {QueryAIHealth, QueryBlockchainTech, QueryShortWords}

MaxPosts == 3
MaxResultsArg == 3

SeqsUpTo(S, n) == UNION {[1..k -> S] : k \in 0..n}

NoOutput == [raised |-> FALSE, list |-> <<>>]

RedditIdle ==
    /\ fmtPosts = <<>> /\ fmtQuery = <<>> /\ fmtOrder = <<>>
    /\ fmtMax = 0 /\ fmtOut = NoOutput /\ fmtPc = "off"

RedditInit ==
    /\ fmtPosts \in SeqsUpTo(RedditPosts, MaxPosts)
    /\ fmtQuery \in RedditQueries
    /\ fmtOrder \in Orders(QueryTerms(fmtQuery))
    /\ fmtMax \in 0..MaxResultsArg
    /\ fmtOut = NoOutput
    /\ fmtPc = "ready"

\* _format_reddit_results(posts, max_results, original_query)
FormatReddit ==
    /\ fmtPc = "ready"
    /\ fmtOut' = FormatRedditResults(fmtPosts, fmtMax, fmtOrder)
    /\ fmtPc' = "done"
    /\ UNCHANGED <<fmtPosts, fmtQuery, fmtOrder, fmtMax>>

(***************************************************************************)
(* The product-launch adapter's pure steps: keyword extraction, record     *)
(* formatting, URL de-duplication and ranking.                             *)
(*                                                                         *)
(* A keyword is a sequence of one or two words.  Ranking scores are in     *)
(* hundredths (votes / 100 is exact in hundredths).  The nodes of the      *)
(* pool carry no topics, so a record's search text is its title and its    *)
(* snippet.                                                                *)
(***************************************************************************)
\* synonym_map, the entries that a query over the pool words can reach
synonym_map ==
    [main |-> {<<"artificial", "intelligence">>, <<"blockchain">>, <<"health">>},
     syn |-> [m \in {<<"artificial", "intelligence">>, <<"blockchain">>, <<"health">>} |->
        CASE m = <<"artificial", "intelligence">> ->
                {<<"ai">>, <<"machine", "learning">>, <<"deep", "learning">>,
                 <<"neural", "network">>, <<"ml">>}
          [] m = <<"blockchain">> ->
                {<<"crypto">>, <<"cryptocurrency">>, <<"web3">>, <<"defi">>,
                 <<"smart", "contract">>}
          [] OTHER ->
                {<<"healthcare">>, <<"medical">>, <<"medicine">>, <<"clinical">>,
                 <<"wellness">>, <<"fitness">>}]]

stop_words == {"the"}

\* keyword in main_term (substring of the joined term)
InMainTerm(word, m) == \E i \in DOMAIN m : m[i] = word \/ <<word, m[i]>> \in SubWords

\* _extract_keywords_smart(text, "") for a text of at most 15 keywords
ExtractKeywordsSmart(text) ==
    LET keywords == {text[i].w : i \in {j \in DOMAIN text :
                        WordChars(text[j].w) > 2 /\ text[j].w \notin stop_words}}
        hit == {m \in synonym_map.main :
                    \E k \in keywords : InMainTerm(k, m) \/ <<k>> \in synonym_map.syn[m]}
    IN {<<k>> : k \in keywords} \cup hit \cup UNION {synonym_map.syn[m] : m \in hit}

\* keyword.lower() in text
KeywordIn(kw, t) ==
    IF Len(kw) = 1 THEN HasWord(t, kw[1]) ELSE HasPhrase(t, kw[1], kw[2])

NullVotes == -1

\* A node of a Product Hunt listing.  days_old < 0: no createdAt.
\* votes = NullVotes: "votesCount": null.
ProducthuntNode(name, tagline, description, url, votes, days_old) ==
    [name |-> name, tagline |-> tagline, description |-> description,
     url |-> url, votes |-> votes, days_old |-> days_old]

DescriptionLimit == 200

\* _format_producthunt_result(node)
FormatProducthuntResult(node) ==
    [title |-> node.name,
     url |-> node.url,
     snippet |-> IF node.description # <<>> /\ node.description # node.tagline
                 THEN node.tagline \o <<Pad(2)>>
                      \o TakeChars(node.description, DescriptionLimit) \o <<Ellipsis>>
                 ELSE node.tagline,
     votes |-> node.votes,
     days_old |-> node.days_old,
     source |-> "Product Hunt"]

\* The loop of search_producthunt that drops records without URL and
\* repeated URLs, keeping the first of each.
RECURSIVE DedupeByUrl(_, _)
DedupeByUrl(results, seen_urls) ==
    IF results = <<>> THEN <<>>
    ELSE IF results[1].url # "" /\ results[1].url \notin seen_urls
         THEN <<results[1]>> \o DedupeByUrl(Tail(results), seen_urls \cup {results[1].url})
         ELSE DedupeByUrl(Tail(results), seen_urls)

\* The score _rank_producthunt_results gives one record, in hundredths.
ProducthuntScore(result, keywords) ==
    LET search_text == result.title \o result.snippet
        found == {k \in keywords : KeywordIn(k, search_text)}
        inTitle == {k \in found : KeywordIn(k, result.title)}
    IN 100 * Cardinality(found) + 200 * Cardinality(inTitle)
       + (IF result.votes > 0 THEN Min(result.votes, 500) ELSE 0)
       + (IF result.days_old < 0 THEN 0
          ELSE IF result.days_old < 30 THEN 300
          ELSE IF result.days_old < 90 THEN 100 ELSE 0)

ScoreGreater(a, b) == a.relevance_score > b.relevance_score

\* _rank_producthunt_results(results, keywords): [raised, list].  Comparing
\* a null vote count with 0 raises TypeError.  Every record gains the
\* field relevance_score.
RankProducthuntResults(results, keywords) ==
    IF \E i \in DOMAIN results : results[i].votes = NullVotes
    THEN [raised |-> TRUE, list |-> <<>>]
    ELSE [raised |-> FALSE,
          list |-> LET scored == [i \in DOMAIN results |->
                                    results[i] @@ [relevance_score |->
                                        ProducthuntScore(results[i], keywords)]]
                   IN SortedReverse(scored,
                                    {ij \in (DOMAIN scored) \X (DOMAIN scored) :
                                        ScoreGreater(scored[ij[1]], scored[ij[2]])})]

\* result['relevance_score'] = score writes into the dict of the input list:
\* the dicts after the call.  When the vote count of a record is null the
\* loop raises there, and only the records before it have been written.
DictsAfterRanking(results, keywords) ==
    LET bad == {i \in DOMAIN results : results[i].votes = NullVotes}
        stop == IF bad = {} THEN Len(results) + 1
                ELSE CHOOSE i \in bad : \A j \in bad : i <= j
    IN [i \in DOMAIN results |->
          IF i < stop
          THEN [relevance_score |-> ProducthuntScore(results[i], keywords)] @@ results[i]
          ELSE results[i]]

NameAssistant == <<Ch("artificial", 10), Ch("intelligence", 13), Ch("assistant", 10)>>
TaglineNotes == <<Ch("healthcare", 10), Ch("notes", 6)>>
TaglineJournal == <<Ch("medical", 7), Ch("journal", 8)>>

NodeAssistant == ProducthuntNode(NameAssistant, <<Pad(40)>>, <<>>, "ph/assistant", 300, 10)
NodeNotes == ProducthuntNode(<<Ch("notes", 5)>>, TaglineNotes, <<>>, "ph/notes", 50, 400)
NodeJournal == ProducthuntNode(<<Ch("journal", 7)>>, TaglineJournal, TaglineJournal, "ph/journal", 150, 60)
NodeNoUrl == ProducthuntNode(<<Ch("wellness", 8)>>, <<Pad(30)>>, <<>>, "", 50, 400)
NodeNullVotes == ProducthuntNode(<<Ch("notes", 5)>>, TaglineNotes, <<>>, "ph/null", NullVotes, 400)
NodeLong == ProducthuntNode(<<Ch("blockchain", 10)>>, <<Pad(600)>>, <<Pad(300)>>, "ph/long", 0, -1)
NodeMirror == ProducthuntNode(<<Ch("mirror", 6)>>, <<Pad(20)>>, <<Ch("crypto", 6)>>, "ph/assistant", 600, 10)

ProducthuntNodes == {NodeAssistant, NodeNotes, NodeJournal, NodeNoUrl, NodeNullVotes,
                     NodeLong, NodeMirror}

QueryBlockchainHealth == <<W("blockchain"), W("in"), W("healthcare")>>
ProducthuntQueries == {QueryAIHealth, QueryBlockchainHealth}

NoRecords == <<>>

RankIdle ==
    /\ rankIn = NoRecords /\ rankQuery = <<>> /\ rankOut = NoOutput /\ rankPc = "off"
    /\ rankDicts = NoRecords /\ unique_results = NoRecords

RankInit ==
    /\ rankIn \in SeqsUpTo({FormatProducthuntResult(n) : n \in ProducthuntNodes}, MaxPosts)
    /\ rankQuery \in ProducthuntQueries
    /\ rankOut = NoOutput
    /\ rankPc = "ready"
    /\ rankDicts = rankIn
    /\ unique_results = NoRecords

\* _rank_producthunt_results(results, keywords)
RankProducthunt ==
    /\ rankPc = "ready"
    /\ rankOut' = RankProducthuntResults(rankIn, ExtractKeywordsSmart(rankQuery))
    /\ rankDicts' = DictsAfterRanking(rankDicts, ExtractKeywordsSmart(rankQuery))
    /\ rankPc' = "done"
    /\ UNCHANGED <<rankIn, rankQuery, unique_results>>

\* The loop of search_producthunt (and of search_reddit) that builds
\* unique_results from all_results.
DedupeResults ==
    /\ rankPc = "ready"
    /\ unique_results' = DedupeByUrl(rankIn, {})
    /\ rankPc' = "deduped"
    /\ UNCHANGED <<rankIn, rankQuery, rankOut, rankDicts>>

(***************************************************************************)
(* The query translators.                                                  *)
(*                                                                         *)
(* A text is a sequence of words separated by single spaces, without       *)
(* punctuation; a word is its lower-case spelling and whether its first    *)
(* letter is upper case.  The dictionaries below are the entries of the    *)
(* source dictionaries whose words all belong to TrWords, in source order: *)
(* no other entry can match a text over TrWords.                           *)
(***************************************************************************)
\* The longest input text, in words.
MaxWords == 4

TrWords == {W("artificial"), W("intelligence"), W("in"), W("healthcare"),
            W("blockchain"), W("the"), W("inteligencia"), W("na"),
            W("saude"), W("inovacao"), W("xyz"), Cap("xyz"), Cap("blockchain")}

TrInputs == UNION {[1..n -> TrWords] : n \in 0..MaxWords}

\* str.lower()
LowerText(t) == [i \in DOMAIN t |-> W(t[i].w)]

\* str.capitalize() of one dictionary word
Capitalize(word) == Cap(word.w)

\* pt in text_lower, for a phrase of whole words
Occurs(p, t) ==
    \E i \in 1..(Len(t) - Len(p) + 1) : SubSeq(t, i, i + Len(p) - 1) = p

\* re.compile(re.escape(p), re.IGNORECASE).sub(r, t) and, on lower-case text,
\* t.replace(p, r): every non-overlapping occurrence, leftmost first.
RECURSIVE ReplaceAll(_, _, _)
ReplaceAll(t, p, r) ==
    IF Len(t) < Len(p) \/ Len(p) = 0 THEN t
    ELSE IF LowerText(SubSeq(t, 1, Len(p))) = p
         THEN r \o ReplaceAll(SubSeq(t, Len(p) + 1, Len(t)), p, r)
         ELSE <<t[1]>> \o ReplaceAll(Tail(t), p, r)

Phrase2(a, b) == <<W(a), W(b)>>
Phrase3(a, b, c) == <<W(a), W(b), W(c)>>
Phrase4(a, b, c, d) == <<W(a), W(b), W(c), W(d)>>

\* ---- mcp._translate_to_english
McpEnglishIndicators == {"the", "and", "of", "to", "in", "for", "on", "with",
                         "at", "by", "from"}

McpDirectTranslations == <<
    <<Phrase4("inteligencia", "artificial", "na", "saude"),
      Phrase4("artificial", "intelligence", "in", "healthcare")>>,
    <<Phrase2("inteligencia", "artificial"), Phrase2("artificial", "intelligence")>>,
    <<Phrase3("blockchain", "na", "saude"), Phrase3("blockchain", "in", "healthcare")>>,
    <<<<W("saude")>>, <<W("health")>> >> >>

McpCommonQueries == <<
    <<Phrase2("inteligencia", "artificial"), Phrase2("artificial", "intelligence")>>,
    <<<<W("blockchain")>>, <<W("blockchain")>> >> >>

McpWordTranslations == <<
    <<"saude", "health">>,
    <<"inovacao", "innovation">> >>

\* The two substitution loops: an entry is applied to the current text when
\* its phrase occurs in text_lower, the lower-cased ORIGINAL text.
RECURSIVE McpApplyPhrases(_, _, _, _)
McpApplyPhrases(text, text_lower, dict, i) ==
    IF i > Len(dict) THEN text
    ELSE McpApplyPhrases(
            IF Occurs(dict[i][1], text_lower)
            THEN ReplaceAll(text, dict[i][1], dict[i][2]) ELSE text,
            text_lower, dict, i + 1)

\* The word loop: the first dictionary entry equal to the lower-cased word
\* (or to it plus 's') translates it, keeping an upper-case first letter.
McpTranslateWord(word) ==
    LET matches == {i \in 1..Len(McpWordTranslations) :
                    McpWordTranslations[i][1] = word.w}
    IN IF matches = {} THEN word
       ELSE LET i == CHOOSE j \in matches : \A k \in matches : j <= k
                en == W(McpWordTranslations[i][2])
            IN IF word.cap THEN Capitalize(en) ELSE en

\* The last resort when the word loop changed nothing.
McpFallback(text_lower, translated_text) ==
    IF Occurs(Phrase2("inteligencia", "artificial"), text_lower)
    THEN IF \E i \in DOMAIN text_lower : text_lower[i].w = "saude"
         THEN Phrase4("artificial", "intelligence", "in", "healthcare")
         ELSE Phrase2("artificial", "intelligence")
    ELSE IF \E i \in DOMAIN text_lower : text_lower[i].w = "blockchain"
         THEN IF \E i \in DOMAIN text_lower : text_lower[i].w = "saude"
              THEN Phrase3("blockchain", "in", "healthcare")
              ELSE Phrase2("blockchain", "technology")
         ELSE translated_text

TranslateToEnglish(text) ==
    LET text_lower == LowerText(text)
        english_word_count ==
            Cardinality({w \in McpEnglishIndicators :
                            \E i \in DOMAIN text_lower : text_lower[i].w = w})
    IN IF english_word_count >= 2 \/ Len(text) <= 1 THEN text
       ELSE LET t1 == McpApplyPhrases(text, text_lower, McpDirectTranslations, 1)
                t2 == McpApplyPhrases(t1, text_lower, McpCommonQueries, 1)
                translated_text == [i \in DOMAIN t2 |-> McpTranslateWord(t2[i])]
            IN IF translated_text = t2
               THEN McpFallback(text_lower, translated_text)
               ELSE translated_text

\* ---- api_utils.translate_to_english_smart
SmartEnglishIndicators == {"the", "and", "of", "to", "in", "for", "on", "with",
                           "at", "by"}

\* the keys of `translations` that contain a space
SmartPhrases == <<
    <<Phrase2("inteligencia", "artificial"), Phrase2("artificial", "intelligence")>> >>

\* the keys of `translations` that are one word
SmartWords == <<
    <<"saude", "health">>,
    <<"inovacao", "innovation">>,
    <<"na", "in">> >>

RECURSIVE SmartApplyPhrases(_, _, _)
SmartApplyPhrases(text, dict, i) ==
    IF i > Len(dict) THEN text
    ELSE SmartApplyPhrases(
            IF Occurs(dict[i][1], text)
            THEN ReplaceAll(text, dict[i][1], dict[i][2]) ELSE text,
            dict, i + 1)

SmartTranslateWord(word) ==
    LET matches == {i \in 1..Len(SmartWords) : SmartWords[i][1] = word.w}
    IN IF matches = {} THEN word
       ELSE W(SmartWords[CHOOSE j \in matches : TRUE][2])

TranslateToEnglishSmart(text) ==
    LET text_words == LowerText(text)
        english_count ==
            Cardinality({w \in SmartEnglishIndicators :
                            \E i \in DOMAIN text_words : text_words[i].w = w})
    IN IF english_count >= 3 \/ Len(text_words) <= 2 THEN text
       ELSE LET t1 == SmartApplyPhrases(text_words, SmartPhrases, 1)
                t2 == [i \in DOMAIN t1 |-> SmartTranslateWord(t1[i])]
            IN IF t2 = <<>> THEN t2
               ELSE [t2 EXCEPT ![1] = Capitalize(t2[1])]

TrInit ==
    /\ trFn \in {"mcp", "smart"}
    /\ trIn \in TrInputs
    /\ trOut = <<>>
    /\ trPc = "ready"

\* The caller applies the chosen translator to the text.
TrApply ==
    /\ trPc = "ready"
    /\ trOut' = IF trFn = "mcp" THEN TranslateToEnglish(trIn)
                ELSE TranslateToEnglishSmart(trIn)
    /\ trPc' = "done"
    /\ UNCHANGED <<trFn, trIn>>

(***************************************************************************)
(* The aggregator: ModelContextProtocol.get_context and the four adapters  *)
(* it calls in turn.  One step per HTTP request, plus the entry of an      *)
(* adapter that sends several requests and the final merge.  The clock     *)
(* stands still during a call and moves between calls.                     *)
(***************************************************************************)
\* A different order, with the papers first: not the order of the code.
SourcesArxivFirst == <<"arxiv", "web", "reddit", "producthunt">>

\* The order in which get_context fills results, and results.values() lists it.
Sources == <<"web", "arxiv", "reddit", "producthunt">>
SourceSet == {Sources[i] : i \in DOMAIN Sources}

\* self._cache_timeout
cache_timeout == 300

\* The calls to get_context of one behaviour and the largest max_results.
MaxCalls == 2
MaxResults == 2

\* The time that can pass between two calls: just less than the lifetime of
\* a cache entry, or all of it.
Elapses == {cache_timeout - 1, cache_timeout}

\* The query of every call; context is "".
AggQuery == <<W("healthcare")>>

\* The place of a keyword argument's name in alphabetical order.
NameRank(name) ==
    CASE name = "context" -> 1
      [] name = "max_results" -> 2
      [] name = "num_results" -> 3
      [] OTHER -> 4

\* sorted(kwargs.items()): kwargs is the sequence of the <<name, value>>
\* pairs in the order the caller wrote them; the names differ.
SortedItems(kwargs) ==
    [p \in DOMAIN kwargs |->
        kwargs[CHOOSE i \in DOMAIN kwargs :
                  Cardinality({j \in DOMAIN kwargs :
                      NameRank(kwargs[j][1]) < NameRank(kwargs[i][1])}) = p - 1]]

\* _get_cache_key(source, query, **kwargs): the parts that are joined with
\* "|": the source, the lower-cased query and one "name:value" part for each
\* keyword argument, in the order of the names.  The texts of the model hold
\* no "|", so that the joined string and the sequence of parts determine
\* each other.
GetCacheKey(source, query, kwargs) ==
    <<source, [i \in DOMAIN query |-> [query[i] EXCEPT !.cap = FALSE]], SortedItems(kwargs)>>

\* The length of the context that enters the key: context[:100]
ContextLimit == 100

\* The key each adapter asks for.
WebCacheKey(query, num_results) ==
    GetCacheKey("web", query, <<<<"num_results", num_results>>>>)
ArxivCacheKey(query, max_results, context) ==
    GetCacheKey("arxiv", query, <<<<"max_results", max_results>>,
                                  <<"context", TakeChars(context, ContextLimit)>>>>)
RedditCacheKey(query, max_results, time_filter) ==
    GetCacheKey("reddit", query, <<<<"max_results", max_results>>,
                                   <<"time_filter", time_filter>>>>)
ProducthuntCacheKey(query, max_results, context) ==
    GetCacheKey("producthunt", query, <<<<"max_results", max_results>>,
                                        <<"context", TakeChars(context, ContextLimit)>>>>)

\* The keys of the adapters as get_context(AggQuery, n, "") calls them.
WebKey(n) == WebCacheKey(AggQuery, n)
ArxivKey(n) == ArxivCacheKey(AggQuery, n, <<>>)
\* A discussion-board adapter that keeps its list under the key of the web adapter.
RedditKeyOfWeb(n) == WebCacheKey(AggQuery, n)

RedditKey(n) == RedditCacheKey(AggQuery, n, "year")
ProducthuntKey(n) == ProducthuntCacheKey(AggQuery, n, <<>>)

\* A lookup that still returns an entry at the very end of its lifetime.
GetFromCacheInclusive(key) ==
    IF key \in DOMAIN cache /\ now - cache[key].timestamp <= cache_timeout
    THEN [found |-> TRUE, data |-> cache[key].data]
    ELSE [found |-> FALSE, data |-> <<>>]

\* _get_from_cache(cache_key): [found, data]; found = FALSE stands for None
GetFromCache(key) ==
    IF key \in DOMAIN cache /\ now - cache[key].timestamp < cache_timeout
    THEN [found |-> TRUE, data |-> cache[key].data]
    ELSE [found |-> FALSE, data |-> <<>>]

\* A read that removes the entry it finds expired.
EvictExpiredOnRead(key) ==
    IF key \in DOMAIN cache /\ now - cache[key].timestamp >= cache_timeout
    THEN [k \in DOMAIN cache \ {key} |-> cache[k]]
    ELSE cache

\* self._cache after _get_from_cache(cache_key): the method assigns nothing
\* to it and deletes nothing from it.
CacheAfterRead(key) == cache

\* `if cached_result:` an empty list is as false as None
Truthy(cached_result) == cached_result.found /\ cached_result.data # <<>>

\* _set_cache(cache_key, data)
SetCache(key, data) ==
    [k \in DOMAIN cache \cup {key} |->
        IF k = key THEN [timestamp |-> now, data |-> data] ELSE cache[k]]

\* What an HTTP request can come back with: a status other than 200, an
\* exception of requests (timeout included), or status 200 with a body.
Failures == {"status", "exception"}

\* Entries of a Serper response.
WebShort == [has_title |-> TRUE, title |-> <<Ch("healthcare", 10), Ch("news", 5)>>,
             link |-> "web/short", snippet |-> <<Pad(120)>>]
WebLong == [has_title |-> FALSE, title |-> <<>>,
            link |-> "web/long", snippet |-> <<Pad(600)>>]
WebListings == {<<>>, <<WebShort, WebLong>>}

\* The record search_web makes of one 'organic' entry.
FormatWebResult(result) ==
    [title |-> IF result.has_title THEN result.title
               ELSE <<Ch("sem", 3), Ch("titulo", 7)>>,
     url |-> result.link,
     snippet |-> result.snippet,
     source |-> "Web"]

\* Entries of an arXiv feed; complete = FALSE: an entry without <summary>.
PaperA == [complete |-> TRUE, title |-> <<Ch("healthcare", 10), Ch("survey", 7)>>,
           url |-> "arxiv/a", summary |-> <<Pad(900)>>]
PaperB == [complete |-> TRUE, title |-> <<Ch("clinical", 8), Ch("models", 7)>>,
           url |-> "arxiv/b", summary |-> <<Pad(300)>>]
PaperBroken == [complete |-> FALSE, title |-> <<Ch("broken", 6)>>,
                url |-> "arxiv/c", summary |-> <<>>]
ArxivFeeds == {<<>>, <<PaperA, PaperBroken, PaperB>>}

\* The papers search_arxiv makes of the entries of a feed: an entry that
\* raises while it is read is skipped.
FormatArxivEntries(entries) ==
    LET good == SelectSeq(entries, LAMBDA e : e.complete)
    IN [i \in DOMAIN good |->
          [title |-> good[i].title, url |-> good[i].url,
           summary |-> good[i].summary, source |-> "arXiv"]]

AggIdle ==
    /\ env_producthunt = FALSE /\ serper_available = FALSE
    /\ producthunt_available = FALSE /\ producthunt_token = FALSE
    /\ cache = <<>> /\ now = 0 /\ pc = "off" /\ argMax = 0
    /\ ctxResults = <<>> /\ accResults = <<>> /\ topicsLeft = 0
    /\ requested = {} /\ ok200 = FALSE /\ cacheHits = {} /\ raisedIn = {}
    /\ calls = 0 /\ started = 0 /\ httpSent = 0 /\ httpFailed = FALSE /\ prev = <<>>

\* __init__: the availability flags are read from the environment once.
AggInit ==
    /\ env_producthunt \in BOOLEAN
    /\ serper_available \in BOOLEAN
    /\ producthunt_available = env_producthunt
    /\ producthunt_token = FALSE
    /\ cache = <<>> /\ now = 0 /\ pc = "idle" /\ argMax = 0
    /\ ctxResults = <<>> /\ accResults = <<>> /\ topicsLeft = 0
    /\ requested = {} /\ ok200 = FALSE /\ cacheHits = {} /\ raisedIn = {}
    /\ calls = 0 /\ started = 0 /\ httpSent = 0 /\ httpFailed = FALSE /\ prev = <<>>

flagVars == <<env_producthunt, serper_available, producthunt_available, producthunt_token>>

\* Time passes between two calls.
Tick ==
    /\ pc = "idle"
    /\ calls > 0
    /\ now = started
    /\ \E d \in Elapses : now' = now + d
    /\ UNCHANGED <<flagVars, cache, pc, argMax, ctxResults, accResults, topicsLeft,
                   requested, ok200, cacheHits, raisedIn, calls, started, httpSent, httpFailed, prev>>

\* A caller enters get_context(query, max_results, ""): results = {}
GetContext ==
    /\ pc = "idle"
    /\ calls < MaxCalls
    /\ calls > 0 => now > started
    /\ \E n \in 1..MaxResults : argMax' = n
    /\ calls' = calls + 1
    /\ started' = now
    /\ prev' = IF calls = 0 THEN <<>>
               ELSE <<[args |-> argMax, start |-> started, results |-> ctxResults]>>
    /\ ctxResults' = <<>>
    /\ accResults' = <<>>
    /\ requested' = {} /\ ok200' = FALSE /\ cacheHits' = {} /\ raisedIn' = {}
    /\ httpSent' = 0
    /\ httpFailed' = FALSE
    /\ pc' = "web"
    /\ UNCHANGED <<flagVars, cache, now, topicsLeft>>

\* What an adapter call comes to: the list it returns, whether it stores
\* the list in the cache, whether it sent a request (sent = 1) and whether
\* the request was answered with status 200 (ok = 1), and whether the list
\* came from the cache.
Outcome(list, store, sent, ok, hit) ==
    [list |-> list, store |-> store, sent |-> sent, ok |-> ok, hit |-> hit]

\* An adapter that answers a failed request with whatever the cache still
\* holds, however old.
StaleOnFailure(key) == IF key \in DOMAIN cache THEN cache[key].data ELSE <<>>

\* The list an adapter returns when its request fails: `return []`
OnFailure(key) == <<>>

\* An adapter that never misses its credential.
NeverMissing(available) == FALSE

\* `if not self.serper_available:` / `if not self.producthunt_available:`
CredentialMissing(available) == ~available

\* search_web(query, max_results)
SearchWebOutcomes ==
    LET cached_result == GetFromCache(WebKey(argMax))
    IN IF Truthy(cached_result)
       THEN {Outcome(cached_result.data, FALSE, 0, 0, TRUE)}
       ELSE IF CredentialMissing(serper_available)
       THEN {Outcome(<<>>, FALSE, 0, 0, FALSE)}
       ELSE {Outcome(OnFailure(WebKey(argMax)), FALSE, 1, 0, FALSE) : f \in Failures}
            \cup {Outcome([i \in DOMAIN organic |-> FormatWebResult(organic[i])],
                          TRUE, 1, 1, FALSE) : organic \in WebListings}

\* search_arxiv(query, max_results, ""): a feed without entries is returned
\* as [] before the cache is written.
SearchArxivOutcomes ==
    LET cached_result == GetFromCache(ArxivKey(argMax))
    IN IF Truthy(cached_result)
       THEN {Outcome(cached_result.data, FALSE, 0, 0, TRUE)}
       ELSE {Outcome(OnFailure(ArxivKey(argMax)), FALSE, 1, 0, FALSE) : f \in Failures}
            \cup {IF entries = <<>> THEN Outcome(<<>>, FALSE, 1, 1, FALSE)
                  ELSE Outcome(FormatArxivEntries(entries), TRUE, 1, 1, FALSE)
                  : entries \in ArxivFeeds}

\* An adapter returns into get_context: results[source] = list
Return(source, key, o, next) ==
    /\ ctxResults' = ctxResults @@ (source :> o.list)
    /\ cache' = IF o.store THEN SetCache(key, o.list) ELSE cache
    /\ requested' = IF o.sent > 0 THEN requested \cup {source} ELSE requested
    /\ ok200' = (ok200 \/ o.ok > 0)
    /\ cacheHits' = IF o.hit THEN cacheHits \cup {source} ELSE cacheHits
    /\ httpSent' = o.sent
    /\ httpFailed' = (o.sent > o.ok)
    /\ pc' = next

SearchWeb ==
    /\ pc = "web"
    /\ \E o \in SearchWebOutcomes : Return("web", WebKey(argMax), o, "arxiv")
    /\ UNCHANGED <<flagVars, now, argMax, accResults, topicsLeft, raisedIn,
                   calls, started, prev>>

SearchArxiv ==
    /\ pc = "arxiv"
    /\ \E o \in SearchArxivOutcomes : Return("arxiv", ArxivKey(argMax), o, "reddit")
    /\ UNCHANGED <<flagVars, now, argMax, accResults, topicsLeft, raisedIn,
                   calls, started, prev>>

\* Listings reddit.com/search.json can answer with.
RedditListings == {<<PostLaptops>>, <<PostLong, PostLaptops>>}

\* english_query = self._translate_to_english(query)
EnglishQuery == TranslateToEnglish(AggQuery)

\* The query of the last attempt of _search_reddit_fallback
QueryLastAttempt == <<W("technology"), W("innovation"), W("future")>>

\* The possible results of _format_reddit_results(posts, n, query): one for
\* each order in which the set of query terms can be enumerated.
FormatRedditChoices(posts, n, query) ==
    {FormatRedditResults(posts, n, terms) : terms \in Orders(QueryTerms(query))}

\* One sub-search has returned `found`: extend all_results and go on with
\* the next sub-search, or, with max_results records or no sub-search left,
\* de-duplicate by URL, cut, store in the cache and return.
RedditExtend(found, ok, next) ==
    LET acc == accResults \o found
    IN /\ httpSent' = httpSent + 1
       /\ httpFailed' = (httpFailed \/ ok = 0)
       /\ IF Len(acc) < argMax /\ next # "done"
          THEN /\ pc' = next
               /\ accResults' = acc
               /\ requested' = requested \cup {"reddit"}
               /\ ok200' = (ok200 \/ ok > 0)
               /\ UNCHANGED <<ctxResults, cache, cacheHits>>
          ELSE /\ ctxResults' = ctxResults @@ ("reddit" :> Take(DedupeByUrl(acc, {}), argMax))
               /\ cache' = SetCache(RedditKey(argMax), Take(DedupeByUrl(acc, {}), argMax))
               /\ requested' = requested \cup {"reddit"}
               /\ ok200' = (ok200 \/ ok > 0)
               /\ pc' = "producthunt"
               /\ accResults' = <<>>
               /\ UNCHANGED cacheHits

redditFrame == <<flagVars, now, argMax, topicsLeft, raisedIn, calls, started, prev>>

\* search_reddit(query, max_results) up to its first request
SearchReddit ==
    /\ pc = "reddit"
    /\ LET cached_result == GetFromCache(RedditKey(argMax))
       IN IF Truthy(cached_result)
          THEN /\ Return("reddit", RedditKey(argMax),
                         Outcome(cached_result.data, FALSE, 0, 0, TRUE), "producthunt")
               /\ UNCHANGED accResults
          ELSE /\ pc' = "reddit_direct"
               /\ accResults' = <<>>
               /\ httpSent' = 0
               /\ httpFailed' = FALSE
               /\ UNCHANGED <<ctxResults, cache, requested, ok200, cacheHits>>
    /\ UNCHANGED redditFrame

\* _search_reddit_direct: one request; anything that goes wrong gives []
SearchRedditDirect ==
    /\ pc = "reddit_direct"
    /\ \/ \E f \in Failures : RedditExtend(<<>>, 0, "reddit_topics")
       \/ \E posts \in RedditListings :
          \E r \in FormatRedditChoices(posts, argMax, EnglishQuery) :
             RedditExtend(r.list, 1, "reddit_topics")
    /\ UNCHANGED redditFrame

\* _search_reddit_by_topics, asked for the records still missing
SearchRedditByTopics ==
    /\ pc = "reddit_topics"
    /\ \/ \E f \in Failures : RedditExtend(<<>>, 0, "reddit_fallback")
       \/ \E posts \in RedditListings :
          \E r \in FormatRedditChoices(posts, argMax - Len(accResults), EnglishQuery) :
             RedditExtend(r.list, 1, "reddit_fallback")
    /\ UNCHANGED redditFrame

\* _search_reddit_fallback, first request: an exception of the request ends
\* the fallback; another status, or a listing that cannot be formatted,
\* leads to the last attempt.
SearchRedditFallback ==
    /\ pc = "reddit_fallback"
    /\ \/ RedditExtend(<<>>, 0, "done")
       \/ /\ pc' = "reddit_last"
          /\ requested' = requested \cup {"reddit"}
          /\ httpSent' = httpSent + 1
          /\ httpFailed' = TRUE
          /\ UNCHANGED <<ctxResults, cache, ok200, cacheHits, accResults>>
       \/ \E posts \in RedditListings :
          \E r \in FormatRedditChoices(posts, argMax - Len(accResults), EnglishQuery) :
             IF r.raised
             THEN /\ pc' = "reddit_last"
                  /\ requested' = requested \cup {"reddit"}
                  /\ httpSent' = httpSent + 1
                  /\ UNCHANGED httpFailed
                  /\ ok200' = TRUE
                  /\ UNCHANGED <<ctxResults, cache, cacheHits, accResults>>
             ELSE RedditExtend(r.list, 1, "done")
    /\ UNCHANGED redditFrame

\* _search_reddit_fallback, last attempt
SearchRedditLast ==
    /\ pc = "reddit_last"
    /\ \/ \E f \in Failures : RedditExtend(<<>>, 0, "done")
       \/ \E posts \in RedditListings :
          \E r \in FormatRedditChoices(posts, argMax - Len(accResults), QueryLastAttempt) :
             RedditExtend(r.list, 1, "done")
    /\ UNCHANGED redditFrame

\* Listings the Product Hunt API can answer with.
ProducthuntListings == {<<NodeNotes, NodeLong>>, <<NodeNullVotes>>}

\* topic_mapping, the entries a keyword over the pool words can contain
topic_mapping ==
    {<<<<"ai">>, "artificial-intelligence">>,
     <<<<"artificial", "intelligence">>, "artificial-intelligence">>,
     <<<<"machine", "learning">>, "artificial-intelligence">>,
     <<<<"blockchain">>, "blockchain">>,
     <<<<"crypto">>, "cryptocurrency">>,
     <<<<"health">>, "health-fitness">>,
     <<<<"healthcare">>, "health-fitness">>,
     <<<<"medical">>, "health-fitness">>}

\* key in keyword_lower
KeyInKeyword(key, keyword) ==
    IF Len(key) = 1
    THEN \E i \in DOMAIN keyword : keyword[i] = key[1] \/ <<key[1], keyword[i]>> \in SubWords
    ELSE keyword = key

\* len(list(set(topics_to_search))[:3]); three generic topics when none is mapped
TopicRequests(keywords) ==
    LET topics_to_search == {m[2] : m \in {x \in topic_mapping :
                                        \E k \in keywords : KeyInKeyword(x[1], k)}}
    IN IF topics_to_search = {} THEN 3 ELSE Min(3, Cardinality(topics_to_search))

\* _is_producthunt_result_relevant(result, keywords), for a record without topics
IsProducthuntResultRelevant(result, keywords) ==
    \E k \in keywords : KeywordIn(k, result.title \o result.snippet)

Keywords == ExtractKeywordsSmart(AggQuery)

FormatNodes(nodes) == [i \in DOMAIN nodes |-> FormatProducthuntResult(nodes[i])]

producthuntFrame == <<env_producthunt, serper_available, now, argMax, calls, started, prev>>

\* search_producthunt(query, max_results, "") up to its first request.  The
\* first strategy fetches the token when none is set: _get_producthunt_token
\* reads the key from the environment again.
SearchProducthunt ==
    /\ pc = "producthunt"
    /\ LET cached_result == GetFromCache(ProducthuntKey(argMax))
       IN IF Truthy(cached_result)
          THEN /\ Return("producthunt", ProducthuntKey(argMax),
                         Outcome(cached_result.data, FALSE, 0, 0, TRUE), "merge")
               /\ UNCHANGED <<accResults, topicsLeft, producthunt_available, producthunt_token>>
          ELSE IF CredentialMissing(producthunt_available)
          THEN /\ Return("producthunt", ProducthuntKey(argMax),
                         Outcome(<<>>, FALSE, 0, 0, FALSE), "merge")
               /\ UNCHANGED <<accResults, topicsLeft, producthunt_available, producthunt_token>>
          ELSE /\ accResults' = <<>>
               /\ httpSent' = 0
               /\ httpFailed' = FALSE
               /\ topicsLeft' = TopicRequests(Keywords)
               /\ pc' = IF TopicRequests(Keywords) > 0 THEN "producthunt_topics"
                        ELSE "producthunt_recent"
               /\ IF producthunt_token
                  THEN UNCHANGED <<producthunt_available, producthunt_token>>
                  ELSE /\ producthunt_available' = env_producthunt
                       /\ producthunt_token' = env_producthunt
               /\ UNCHANGED <<ctxResults, cache, requested, ok200, cacheHits>>
    /\ UNCHANGED <<producthuntFrame, raisedIn>>

\* A request of a strategy has been answered.
ProducthuntAnswered(found, ok, next) ==
    /\ accResults' = accResults \o found
    /\ httpSent' = httpSent + 1
    /\ httpFailed' = (httpFailed \/ ok = 0)
    /\ requested' = requested \cup {"producthunt"}
    /\ ok200' = (ok200 \/ ok > 0)
    /\ pc' = next

\* _search_producthunt_by_topics: one request for each topic
SearchProducthuntByTopics ==
    /\ pc = "producthunt_topics"
    /\ topicsLeft' = topicsLeft - 1
    /\ LET next == IF topicsLeft > 1 THEN "producthunt_topics" ELSE "producthunt_recent"
       IN \/ \E f \in Failures : ProducthuntAnswered(<<>>, 0, next)
          \/ \E nodes \in ProducthuntListings : ProducthuntAnswered(FormatNodes(nodes), 1, next)
    /\ UNCHANGED <<producthuntFrame, producthunt_available, producthunt_token,
                   ctxResults, cache, cacheHits, raisedIn>>

\* _search_producthunt_recent_with_filter
SearchProducthuntRecent ==
    /\ pc = "producthunt_recent"
    /\ \/ \E f \in Failures : ProducthuntAnswered(<<>>, 0, "producthunt_popular")
       \/ \E nodes \in ProducthuntListings :
             ProducthuntAnswered(
                SelectSeq(FormatNodes(nodes), LAMBDA r : IsProducthuntResultRelevant(r, Keywords)),
                1, "producthunt_popular")
    /\ UNCHANGED <<producthuntFrame, producthunt_available, producthunt_token,
                   ctxResults, cache, cacheHits, raisedIn, topicsLeft>>

\* _search_producthunt_popular_with_filter and the end of search_producthunt:
\* de-duplicate by URL, rank, cut, store, return.  A ranking that raises
\* leaves search_producthunt and is caught by get_context.
SearchProducthuntPopular ==
    /\ pc = "producthunt_popular"
    /\ \E found \in {<<>>} \cup
            {SelectSeq(FormatNodes(nodes), LAMBDA r : IsProducthuntResultRelevant(r, Keywords))
                : nodes \in ProducthuntListings},
          ok \in {0, 1} :
          /\ (ok = 0 => found = <<>>)
          /\ LET ranked == RankProducthuntResults(DedupeByUrl(accResults \o found, {}), Keywords)
             IN /\ accResults' = <<>>
                /\ httpSent' = httpSent + 1
                /\ httpFailed' = (httpFailed \/ ok = 0)
                /\ requested' = requested \cup {"producthunt"}
                /\ ok200' = (ok200 \/ ok > 0)
                /\ pc' = "merge"
                /\ IF ranked.raised
                   THEN /\ ctxResults' = ctxResults @@ ("producthunt" :> <<>>)
                        /\ raisedIn' = raisedIn \cup {"producthunt"}
                        /\ UNCHANGED cache
                   ELSE /\ ctxResults' = ctxResults @@ ("producthunt" :> Take(ranked.list, argMax))
                        /\ cache' = SetCache(ProducthuntKey(argMax), Take(ranked.list, argMax))
                        /\ UNCHANGED raisedIn
    /\ UNCHANGED <<producthuntFrame, producthunt_available, producthunt_token,
                   cacheHits, topicsLeft>>

\* The end of get_context: 'all' is the lists of results.values() in turn
Merge ==
    /\ pc = "merge"
    /\ ctxResults' = ctxResults @@
          ("all" :> ctxResults[Sources[1]] \o ctxResults[Sources[2]]
                    \o ctxResults[Sources[3]] \o ctxResults[Sources[4]])
    /\ pc' = "idle"
    /\ UNCHANGED <<flagVars, cache, now, argMax, accResults, topicsLeft,
                   requested, ok200, cacheHits, raisedIn, calls, started, httpSent, httpFailed, prev>>

(***************************************************************************)
(* The cache on its own: stores, reads and the clock in any order.         *)
(***************************************************************************)
\* The largest number of times the clock moves in one behaviour.
MaxTicks == 3

\* How far the clock moves at once: a second, or a second less than the
\* lifetime of an entry.
ClockSteps == {1, cache_timeout - 1}

CacheKeys == {WebKey(1), WebKey(2)}

\* The lists that are stored: an empty one and one with a record.
CacheData == {<<>>, <<FormatWebResult(WebShort)>>}

NotRead == [found |-> FALSE, data |-> <<>>]

CacheIdle ==
    /\ cLast = "none" /\ cKey = <<>> /\ cRead = NotRead
    /\ lastStore = <<>> /\ ticks = 0

aggRest == <<flagVars, pc, argMax, ctxResults, accResults, topicsLeft, requested,
             ok200, cacheHits, raisedIn, calls, started, httpSent, httpFailed, prev>>

\* self._set_cache(key, data)
CacheStore ==
    /\ \E key \in CacheKeys, data \in CacheData :
          /\ cache' = SetCache(key, data)
          /\ lastStore' = [k \in DOMAIN lastStore \cup {key} |->
                              IF k = key THEN [t |-> now, v |-> data] ELSE lastStore[k]]
    /\ cLast' = "store"
    /\ UNCHANGED <<now, cKey, cRead, ticks>>

\* self._get_from_cache(key)
CacheRead ==
    /\ \E key \in CacheKeys :
          /\ cKey' = key
          /\ cRead' = GetFromCache(key)
          /\ cache' = CacheAfterRead(key)
    /\ cLast' = "read"
    /\ UNCHANGED <<now, lastStore, ticks>>

\* time.time() moves on
CacheTick ==
    /\ ticks < MaxTicks
    /\ ticks' = ticks + 1
    /\ \E d \in ClockSteps : now' = now + d
    /\ cLast' = "tick"
    /\ UNCHANGED <<cache, cKey, cRead, lastStore>>

(***************************************************************************)
(* Cache keys of two adapter calls.                                        *)
(***************************************************************************)
KeyQueries == {<<W("healthcare")>>, <<Cap("healthcare")>>, <<W("blockchain")>>}

\* Contexts: none, a short one, and two of more than 100 characters that
\* differ after the first 100.
ContextShort == <<Ch("clinical", 8), Ch("notes", 6)>>
ContextLongA == <<Pad(100), Ch("cardiology", 11)>>
ContextLongB == <<Pad(100), Ch("oncology", 9)>>
KeyContexts == {<<>>, ContextShort, ContextLongA, ContextLongB}

TimeFilters == {"year", "month"}

\* An adapter call: the adapter, its arguments, and whether the keyword
\* arguments of _get_cache_key are written in the opposite order.  An
\* argument the adapter does not have is left at "".
AdapterCall(source, query, n, context, time_filter, swapped) ==
    [source |-> source, query |-> query, max_results |-> n, context |-> context,
     time_filter |-> time_filter, swapped |-> swapped]

KeyCalls ==
    {AdapterCall("web", q, n, <<>>, "", s) :
        q \in KeyQueries, n \in 1..MaxResults, s \in BOOLEAN}
    \cup {AdapterCall(src, q, n, c, "", s) :
        src \in {"arxiv", "producthunt"}, q \in KeyQueries, n \in 1..MaxResults,
        c \in KeyContexts, s \in BOOLEAN}
    \cup {AdapterCall("reddit", q, n, <<>>, f, s) :
        q \in KeyQueries, n \in 1..MaxResults, f \in TimeFilters, s \in BOOLEAN}

Swap(kwargs, swapped) ==
    IF swapped THEN [i \in DOMAIN kwargs |-> kwargs[Len(kwargs) + 1 - i]] ELSE kwargs

\* cache_key = self._get_cache_key(...) of the adapter of the call
AdapterKey(call) ==
    CASE call.source = "web" ->
            GetCacheKey("web", call.query,
                        Swap(<<<<"num_results", call.max_results>>>>, call.swapped))
      [] call.source = "reddit" ->
            GetCacheKey("reddit", call.query,
                        Swap(<<<<"max_results", call.max_results>>,
                               <<"time_filter", call.time_filter>>>>, call.swapped))
      [] OTHER ->
            GetCacheKey(call.source, call.query,
                        Swap(<<<<"max_results", call.max_results>>,
                               <<"context", TakeChars(call.context, ContextLimit)>>>>,
                             call.swapped))

KeyIdle == keyCalls = <<>> /\ keyOut = <<>> /\ keyPc = "off"

KeyInit ==
    /\ keyCalls \in KeyCalls \X KeyCalls
    /\ keyOut = <<>>
    /\ keyPc = "ready"

KeyCompute ==
    /\ keyPc = "ready"
    /\ keyOut' = <<AdapterKey(keyCalls[1]), AdapterKey(keyCalls[2])>>
    /\ keyPc' = "done"
    /\ UNCHANGED keyCalls

(***************************************************************************)
(* The four adapter calls of one get_context run as one task per source,   *)
(* joined before the merge.  One task runs at a time and may be suspended  *)
(* between two of its HTTP requests; the steps of a task are the steps of  *)
(* its adapter.                                                            *)
(***************************************************************************)
\* Where an adapter stands when it has returned into get_context.
EndPc(source) ==
    CASE source = "web" -> "arxiv"
      [] source = "arxiv" -> "reddit"
      [] source = "reddit" -> "producthunt"
      [] OTHER -> "merge"

\* The locals of the running task.
Locals == [pc |-> pc, all_results |-> accResults, topics |-> topicsLeft,
           sent |-> httpSent, failed |-> httpFailed]

\* The locals of a task that has not begun.
FreshLocals(source) ==
    [pc |-> source, all_results |-> <<>>, topics |-> 0, sent |-> 0, failed |-> FALSE]

Finished(source) ==
    IF source = cur THEN pc = EndPc(source) ELSE saved[source].pc = EndPc(source)

TaskIdle == cur = "none" /\ saved = <<>>

\* The number of get_context calls of a behaviour whose adapters run as tasks.
MaxTaskCalls == 1

\* get_context starts the four tasks.
StartTasks ==
    /\ calls < MaxTaskCalls
    /\ GetContext
    /\ cur' = "web"
    /\ saved' = [s \in SourceSet |-> FreshLocals(s)]

\* The running task performs one step of its adapter.
TaskStep(source, step) ==
    /\ cur = source
    /\ ~Finished(source)
    /\ step
    /\ UNCHANGED taskVars

\* The running task is suspended and an unfinished task goes on.
Switch ==
    /\ cur # "none"
    /\ \E s \in SourceSet \ {cur} :
          /\ ~Finished(s)
          /\ saved' = [saved EXCEPT ![cur] = Locals]
          /\ cur' = s
          /\ pc' = saved[s].pc
          /\ accResults' = saved[s].all_results
          /\ topicsLeft' = saved[s].topics
          /\ httpSent' = saved[s].sent
          /\ httpFailed' = saved[s].failed
    /\ UNCHANGED <<flagVars, cache, now, argMax, ctxResults, requested, ok200,
                   cacheHits, raisedIn, calls, started, prev>>

\* get_context has all four lists.
Join ==
    /\ cur # "none"
    /\ \A s \in SourceSet : Finished(s)
    /\ cur' = "none"
    /\ saved' = <<>>
    /\ pc' = "merge"
    /\ accResults' = <<>>
    /\ UNCHANGED <<flagVars, cache, now, argMax, ctxResults, topicsLeft, requested, ok200,
                   cacheHits, raisedIn, calls, started, httpSent, httpFailed, prev>>

\* The merge, once the tasks are joined.
MergeJoined == cur = "none" /\ Merge

RetryNext ==
    \/ RetryCall /\ UNCHANGED <<trVars, redditVars, rankVars, aggVars, cacheVars, keyVars, taskVars>>
    \/ RetryAttempt /\ UNCHANGED <<trVars, redditVars, rankVars, aggVars, cacheVars, keyVars, taskVars>>

RetryOnlyInit == RetryInit /\ TrIdle /\ RedditIdle /\ RankIdle /\ AggIdle /\ CacheIdle /\ KeyIdle /\ TaskIdle

SpecRetry == RetryOnlyInit /\ [][RetryNext]_vars

\* Every request has a timeout and every sleep ends, so an iteration of the
\* loop that has been entered is completed.
SpecRetryFair == SpecRetry /\ WF_retryVars(RetryAttempt)

TrNext == TrApply /\ UNCHANGED <<retryVars, redditVars, rankVars, aggVars, cacheVars, keyVars, taskVars>>

TranslateInit == TrInit /\ RetryInit /\ RedditIdle /\ RankIdle /\ AggIdle /\ CacheIdle /\ KeyIdle /\ TaskIdle

SpecTranslate == TranslateInit /\ [][TrNext]_vars

FormatNext ==
    \/ FormatReddit /\ UNCHANGED <<retryVars, trVars, rankVars, aggVars, cacheVars, keyVars, taskVars>>
    \/ RankProducthunt /\ UNCHANGED <<retryVars, trVars, redditVars, aggVars, cacheVars, keyVars, taskVars>>
    \/ DedupeResults /\ UNCHANGED <<retryVars, trVars, redditVars, aggVars, cacheVars, keyVars, taskVars>>

FormatInit ==
    /\ RetryInit /\ TrIdle /\ AggIdle /\ CacheIdle /\ KeyIdle /\ TaskIdle
    /\ \/ RedditInit /\ RankIdle
       \/ RankInit /\ RedditIdle

SpecFormat == FormatInit /\ [][FormatNext]_vars

CacheNext ==
    \/ CacheStore /\ UNCHANGED <<retryVars, trVars, redditVars, rankVars, aggRest, keyVars, taskVars>>
    \/ CacheRead /\ UNCHANGED <<retryVars, trVars, redditVars, rankVars, aggRest, keyVars, taskVars>>
    \/ CacheTick /\ UNCHANGED <<retryVars, trVars, redditVars, rankVars, aggRest, keyVars, taskVars>>

CacheInit == RetryInit /\ TrIdle /\ RedditIdle /\ RankIdle /\ AggIdle /\ CacheIdle /\ KeyIdle /\ TaskIdle

SpecCache == CacheInit /\ [][CacheNext]_vars

KeyNext == KeyCompute /\ UNCHANGED <<retryVars, trVars, redditVars, rankVars, aggVars, cacheVars, taskVars>>

KeySpecInit == KeyInit /\ RetryInit /\ TrIdle /\ RedditIdle /\ RankIdle /\ AggIdle /\ CacheIdle /\ TaskIdle

SpecKey == KeySpecInit /\ [][KeyNext]_vars

Init == AggInit /\ RetryInit /\ TrIdle /\ RedditIdle /\ RankIdle /\ CacheIdle /\ KeyIdle /\ TaskIdle

otherVars == <<retryVars, trVars, redditVars, rankVars, cacheVars, keyVars>>

Next ==
    \/ Tick /\ UNCHANGED <<otherVars, taskVars>>
    \/ GetContext /\ UNCHANGED <<otherVars, taskVars>>
    \/ SearchWeb /\ UNCHANGED <<otherVars, taskVars>>
    \/ SearchArxiv /\ UNCHANGED <<otherVars, taskVars>>
    \/ SearchReddit /\ UNCHANGED <<otherVars, taskVars>>
    \/ SearchRedditDirect /\ UNCHANGED <<otherVars, taskVars>>
    \/ SearchRedditByTopics /\ UNCHANGED <<otherVars, taskVars>>
    \/ SearchRedditFallback /\ UNCHANGED <<otherVars, taskVars>>
    \/ SearchRedditLast /\ UNCHANGED <<otherVars, taskVars>>
    \/ SearchProducthunt /\ UNCHANGED <<otherVars, taskVars>>
    \/ SearchProducthuntByTopics /\ UNCHANGED <<otherVars, taskVars>>
    \/ SearchProducthuntRecent /\ UNCHANGED <<otherVars, taskVars>>
    \/ SearchProducthuntPopular /\ UNCHANGED <<otherVars, taskVars>>
    \/ Merge /\ UNCHANGED <<otherVars, taskVars>>

Spec == Init /\ [][Next]_vars

TaskNext ==
    \/ Tick /\ UNCHANGED <<otherVars, taskVars>>
    \/ StartTasks /\ UNCHANGED otherVars
    \/ TaskStep("web", SearchWeb) /\ UNCHANGED otherVars
    \/ TaskStep("arxiv", SearchArxiv) /\ UNCHANGED otherVars
    \/ TaskStep("reddit", SearchReddit) /\ UNCHANGED otherVars
    \/ TaskStep("reddit", SearchRedditDirect) /\ UNCHANGED otherVars
    \/ TaskStep("reddit", SearchRedditByTopics) /\ UNCHANGED otherVars
    \/ TaskStep("reddit", SearchRedditFallback) /\ UNCHANGED otherVars
    \/ TaskStep("reddit", SearchRedditLast) /\ UNCHANGED otherVars
    \/ TaskStep("producthunt", SearchProducthunt) /\ UNCHANGED otherVars
    \/ TaskStep("producthunt", SearchProducthuntByTopics) /\ UNCHANGED otherVars
    \/ TaskStep("producthunt", SearchProducthuntRecent) /\ UNCHANGED otherVars
    \/ TaskStep("producthunt", SearchProducthuntPopular) /\ UNCHANGED otherVars
    \/ Switch /\ UNCHANGED otherVars
    \/ Join /\ UNCHANGED otherVars
    \/ MergeJoined /\ UNCHANGED <<otherVars, taskVars>>

SpecTasks == Init /\ [][TaskNext]_vars

(***************************************************************************)
(* Properties.                                                             *)
(***************************************************************************)
PermutationsOf(xs) == {[i \in DOMAIN xs |-> xs[f[i]]] : f \in Orders(DOMAIN xs)}

RedditKeys(list) == [i \in DOMAIN list |-> <<list[i].relevance, list[i].score>>]
RankKeys(list) == [i \in DOMAIN list |-> list[i].relevance_score]

\* The records at i < j of out come from positions p < q of in.
InInputOrder(in, out, i, j) ==
    \E p, q \in DOMAIN in : p < q /\ in[p] = out[i] /\ in[q] = out[j]

RedditFormatted == [i \in DOMAIN SelectSeq(fmtPosts, LAMBDA p : p.data) |->
                      FormatRedditPost(SelectSeq(fmtPosts, LAMBDA p : p.data)[i], fmtOrder)]

RankScored == [i \in DOMAIN rankIn |->
                 rankIn[i] @@ [relevance_score |->
                     ProducthuntScore(rankIn[i], ExtractKeywordsSmart(rankQuery))]]

\* C4 (as the code has it): for a fixed query and fixed keywords, every
\* permutation of the raw records gives a ranked list with the same sequence
\* of sort keys, and records with equal keys stay in the order they had in
\* the input; the ranked lists of two permutations are therefore identical
\* when no two records share a key.
C4_SameKeysTiesInInputOrder ==
    /\ (fmtPc = "done" /\ ~fmtOut.raised) =>
          /\ \A perm \in PermutationsOf(fmtPosts) :
                LET o == FormatRedditResults(perm, fmtMax, fmtOrder)
                IN /\ ~o.raised
                   /\ RedditKeys(o.list) = RedditKeys(fmtOut.list)
                   /\ (\A i, j \in DOMAIN RedditFormatted :
                          i # j => RedditKeys(RedditFormatted)[i] # RedditKeys(RedditFormatted)[j])
                      => o.list = fmtOut.list
          /\ \A i, j \in DOMAIN fmtOut.list :
                (i < j /\ RedditKeys(fmtOut.list)[i] = RedditKeys(fmtOut.list)[j]
                       /\ fmtOut.list[i] # fmtOut.list[j])
                => InInputOrder(RedditFormatted, fmtOut.list, i, j)
    /\ (rankPc = "done" /\ ~rankOut.raised) =>
          /\ \A perm \in PermutationsOf(rankIn) :
                LET o == RankProducthuntResults(perm, ExtractKeywordsSmart(rankQuery))
                IN /\ ~o.raised
                   /\ RankKeys(o.list) = RankKeys(rankOut.list)
                   /\ (\A i, j \in DOMAIN RankScored :
                          i # j => RankKeys(RankScored)[i] # RankKeys(RankScored)[j])
                      => o.list = rankOut.list
          /\ \A i, j \in DOMAIN rankOut.list :
                (i < j /\ RankKeys(rankOut.list)[i] = RankKeys(rankOut.list)[j]
                       /\ rankOut.list[i] # rankOut.list[j])
                => InInputOrder(RankScored, rankOut.list, i, j)

\* C4 witness: the formatter has returned two different posts with equal
\* sort keys next to each other.
C4_TieRanked ==
    /\ fmtPc = "done" /\ ~fmtOut.raised
    /\ \E i, j \in DOMAIN fmtOut.list :
          /\ i < j
          /\ RedditKeys(fmtOut.list)[i] = RedditKeys(fmtOut.list)[j]
          /\ fmtOut.list[i] # fmtOut.list[j]

\* C4 as stated: every permutation of the raw records gives the identical
\* ranked list, ties included.
C4_IdenticalForEveryPermutation ==
    /\ (fmtPc = "done") =>
          \A perm \in PermutationsOf(fmtPosts) :
             FormatRedditResults(perm, fmtMax, fmtOrder) = fmtOut
    /\ (rankPc = "done") =>
          \A perm \in PermutationsOf(rankIn) :
             RankProducthuntResults(perm, ExtractKeywordsSmart(rankQuery)) = rankOut

MatchesQueryKeyword(r, query) ==
    \E t \in QueryTerms(query) : HasWord(r.title, t) \/ HasWord(r.snippet, t)

\* C5: for the dual-topic query "artificial intelligence in healthcare", no
\* post whose title and body match no query keyword is in the list the
\* discussion-board formatter returns.
C5_NoKeywordlessPost ==
    (fmtPc = "done" /\ fmtQuery = QueryAIHealth) =>
        \A i \in DOMAIN fmtOut.list : MatchesQueryKeyword(fmtOut.list[i], fmtQuery)

\* C6: the translators return the English queries "artificial intelligence
\* in healthcare" and "blockchain in healthcare" unchanged.
C6_EnglishUnchanged ==
    (trPc = "done" /\ trIn \in {QueryAIHealth, QueryBlockchainHealth}) => trOut = trIn

\* The sources of the running call that were not answered from the cache.
Uncached == SourceSet \ cacheHits

Returned == pc = "idle" /\ calls > 0

AllKeys == SourceSet \cup {"all"}

\* C1: a second get_context call with the arguments of the first, made less
\* than the cache lifetime later, sends no HTTP request and returns the
\* records of the first call for every source and for 'all'.
C1_SecondCallFromCache ==
    (Returned /\ prev # <<>> /\ prev[1].args = argMax
              /\ started - prev[1].start < cache_timeout)
    => (requested = {} /\ ctxResults = prev[1].results)

\* C2 (as the code has it): when no request of a call is answered with
\* status 200, get_context returns all five entries, every source that was
\* not answered from the cache is an empty list, and 'all' holds exactly
\* the records of the sources answered from the cache.
C2_FailuresGiveEmptyUncached ==
    (Returned /\ ~ok200) =>
        /\ DOMAIN ctxResults = AllKeys
        /\ \A src \in Uncached : ctxResults[src] = <<>>
        /\ (cacheHits = {} => ctxResults["all"] = <<>>)
        /\ Len(ctxResults["all"]) =
              Len(ctxResults["web"]) + Len(ctxResults["arxiv"])
              + Len(ctxResults["reddit"]) + Len(ctxResults["producthunt"])

\* C2 witness: every adapter has sent requests, none was answered with
\* status 200, and the call has returned.
C2_EveryRequestFailed ==
    Returned /\ ~ok200 /\ requested = SourceSet /\ ctxResults["all"] = <<>>

\* C2 as stated: when every request of a call fails, all five entries are
\* present and empty.
C2_FailuresGiveAllEmpty ==
    (Returned /\ ~ok200 /\ requested # {}) =>
        /\ DOMAIN ctxResults = AllKeys
        /\ \A k \in AllKeys : ctxResults[k] = <<>>

\* C3: an adapter that fails (returns [] or raises) leaves the lists already
\* returned for the other sources as they are, the remaining adapters still
\* return their lists, and 'all' is the concatenation of the four lists in
\* the order web, arxiv, reddit, producthunt, its length the sum of theirs.
C3_IsolatedAndConcatenated ==
    /\ [](Returned =>
            /\ DOMAIN ctxResults = AllKeys
            /\ ctxResults["all"] = ctxResults["web"] \o ctxResults["arxiv"]
                                   \o ctxResults["reddit"] \o ctxResults["producthunt"]
            /\ Len(ctxResults["all"]) =
                  Len(ctxResults["web"]) + Len(ctxResults["arxiv"])
                  + Len(ctxResults["reddit"]) + Len(ctxResults["producthunt"]))
    /\ [][pc # "idle" =>
            \A k \in DOMAIN ctxResults :
                k \in DOMAIN ctxResults' /\ ctxResults'[k] = ctxResults[k]]_vars

\* C3 witness: the product-launch adapter raised, the other three returned
\* records, and the call has returned.
C3_OneAdapterRaised ==
    /\ Returned /\ "producthunt" \in raisedIn
    /\ ctxResults["web"] # <<>> /\ ctxResults["arxiv"] # <<>> /\ ctxResults["reddit"] # <<>>
    /\ ctxResults["producthunt"] = <<>>

\* C7: every record of the web, discussion-board and product-launch
\* adapters has a snippet of at most 500 characters.
C7_SnippetsCapped ==
    \A src \in {"web", "reddit", "producthunt"} \cap DOMAIN ctxResults :
        \A i \in DOMAIN ctxResults[src] : TextLen(ctxResults[src][i].snippet) <= 500

\* C8: every adapter returns at most max_results records, and 'all' holds
\* at most 4 * max_results.
C8_AtMostMaxResults ==
    /\ \A src \in SourceSet \cap DOMAIN ctxResults : Len(ctxResults[src]) <= argMax
    /\ "all" \in DOMAIN ctxResults => Len(ctxResults["all"]) <= 4 * argMax

\* C9: an adapter whose credential is absent sends no HTTP request and
\* returns [], and the other adapters of the call still run: each returns
\* its list, after a request of its own unless the cache answered.
C9_NoCredentialNoRequest ==
    /\ ~serper_available =>
          /\ "web" \notin requested
          /\ "web" \in DOMAIN ctxResults => ctxResults["web"] = <<>>
    /\ ~env_producthunt =>
          /\ "producthunt" \notin requested
          /\ "producthunt" \in DOMAIN ctxResults => ctxResults["producthunt"] = <<>>
    /\ Returned =>
          /\ DOMAIN ctxResults = AllKeys
          /\ \A src \in {"arxiv", "reddit"} \cap Uncached : src \in requested

\* C9 witness: a call without either credential has returned, with papers
\* and posts fetched by the two adapters that need none.
C9_BothCredentialsAbsent ==
    /\ Returned /\ ~serper_available /\ ~env_producthunt
    /\ {"arxiv", "reddit"} \subseteq requested
    /\ ctxResults["arxiv"] # <<>> /\ ctxResults["reddit"] # <<>>

\* C10: one invocation of a retry-wrapped call issues at most 3 HTTP
\* requests, whatever the upstream answers.
C10_AtMostThreeRequests == requests <= 3

\* C10 witness: an invocation has used all its attempts.
C10_ThreeRequestsDone == rpc = "done" /\ requests = 3 /\ rlast = "s429"

\* The attempt (counted from 0) the last request of the invocation belonged to.
LastAttempt == requests - 1

\* The sleep that followed the last request, 0 when none did.
SleptAfterLast ==
    IF sleeps # <<>> /\ sleeps[Len(sleeps)][1] = LastAttempt
    THEN sleeps[Len(sleeps)][2] ELSE 0

Transient == {"timeout", "conn_error", "s500", "s429"}

\* C11: when a 429 response on attempt k is followed by another attempt,
\* the invocation has slept exactly 2^k seconds in between.
C11_Sleeps2ToAttemptOn429 ==
    (rpc = "loop" /\ rlast = "s429") => SleptAfterLast = Pow2(LastAttempt)

\* C12: a response with a status that is neither 2xx nor 429 ends the
\* invocation with the failed sentinel, without a sleep and without another
\* request.
C12_OtherStatusEndsCall ==
    (rlast \in {"s400", "s500"}) =>
        (rpc = "done" /\ rresult = "sentinel" /\ SleptAfterLast = 0)

\* C13: an invocation that has ended on a transient error (timeout,
\* connection error, 5xx, 429) has used all 3 attempts and returns the failed
\* sentinel; an invocation still running after such an error has slept.
C13_TransientRetriedToBudget ==
    (rlast \in Transient) =>
        /\ rpc = "done" => (requests = max_retries /\ rresult = "sentinel")
        /\ rpc = "loop" => SleptAfterLast > 0

\* C15: every invocation that has entered its loop ends, with the parsed
\* result of a successful attempt or with the failed sentinel, and never
\* with an exception.
C15_TerminatesWithoutRaising ==
    /\ (rpc = "loop") ~> (rpc = "done")
    /\ [](rpc = "done" => rresult \in {"parsed", "sentinel"})
    /\ [](rresult # "raised")

\* C15 witness: an invocation has ended with the sentinel after three
\* attempts that all timed out or raised.
C15_ExhaustedByExceptions ==
    /\ rpc = "done" /\ rresult = "sentinel" /\ requests = max_retries
    /\ rlast \in {"timeout", "conn_error"}
    /\ Len(sleeps) = max_retries - 1

\* C14: an adapter of get_context whose request fails (a status such as
\* 429, a timeout or another exception) sends the request again before it
\* returns an empty list.  The web adapter has just returned when the call
\* stands before the preprint adapter, which has just returned when the call
\* stands before the discussion-board adapter.
C14_AdaptersRetry ==
    /\ (pc = "arxiv" /\ "web" \in requested /\ ~ok200) => httpSent >= 2
    /\ (pc = "reddit" /\ "arxiv" \in requested /\ ~ok200) => httpSent >= 2

\* C16: a read of key k returns the value of the last store of k when it is
\* made less than the lifetime (300 s) after that store, and reports the key
\* absent when it is made at the end of the lifetime or later, or when k was
\* never stored; a store of k replaces the value and the timestamp.
C16_ReadWithinLifetime ==
    /\ cLast = "read" =>
          cRead = IF cKey \in DOMAIN lastStore
                     /\ now < lastStore[cKey].t + cache_timeout
                  THEN [found |-> TRUE, data |-> lastStore[cKey].v]
                  ELSE NotRead
    /\ cLast # "none" =>
          /\ DOMAIN cache = DOMAIN lastStore
          /\ \A k \in DOMAIN cache :
                /\ cache[k].timestamp = lastStore[k].t
                /\ cache[k].data = lastStore[k].v

\* C16 witness: a key stored a second time, after the clock had moved, is
\* read exactly one lifetime after that store and reported absent.
C16_ReadAtEndOfLifetime ==
    /\ cLast = "read" /\ cKey \in DOMAIN lastStore
    /\ lastStore[cKey].t > 0
    /\ now = lastStore[cKey].t + cache_timeout
    /\ ~cRead.found

\* The two calls agree on the adapter, on the query up to letter case and
\* on every argument in full.
SameArguments(a, b) ==
    /\ a.source = b.source
    /\ LowerText(a.query) = LowerText(b.query)
    /\ a.max_results = b.max_results
    /\ a.context = b.context
    /\ a.time_filter = b.time_filter

\* C17: two adapter calls have the same cache key exactly when they agree
\* on the source, on the query up to letter case and on the value of every
\* extra parameter (max_results, the full context, time_filter), whatever
\* the order in which the parameters are written.
C17_SameKeyIffSameArguments ==
    keyPc = "done" =>
        ((keyOut[1] = keyOut[2]) <=> SameArguments(keyCalls[1], keyCalls[2]))

\* The list an adapter handed to get_context, if it has handed one.
ListOf(source) == IF source \in DOMAIN ctxResults THEN ctxResults[source] ELSE <<>>

\* C18: the list of the reddit adapter is in non-increasing order of
\* relevance, also when it is assembled from the direct, by-topic and
\* fallback searches, and the list of the producthunt adapter is in
\* non-increasing order of relevance_score.
C18_ListsSortedByRelevance ==
    /\ \A i, j \in DOMAIN ListOf("reddit") :
          i < j => ListOf("reddit")[i].relevance >= ListOf("reddit")[j].relevance
    /\ \A i, j \in DOMAIN ListOf("producthunt") :
          i < j => ListOf("producthunt")[i].relevance_score
                      >= ListOf("producthunt")[j].relevance_score

\* Every element of the sequence part occurs in the sequence whole.
AllReturned(part, whole) ==
    \A i \in DOMAIN part : \E j \in DOMAIN whole : whole[j] = part[i]

WellFormedPost(p) == p.created_ok
WellFormedRecord(r) == r.votes # NullVotes

\* C19: when exactly one entry of a response is malformed (a post whose
\* created_utc is null, a product record whose vote count is null), the
\* step raises nothing and returns every entry it returns for the same
\* response without the malformed entry.
C19_MalformedEntrySkipped ==
    /\ (fmtPc = "done"
          /\ Cardinality({i \in DOMAIN fmtPosts : ~WellFormedPost(fmtPosts[i])}) = 1)
        => /\ ~fmtOut.raised
           /\ AllReturned(FormatRedditResults(SelectSeq(fmtPosts, WellFormedPost),
                                              fmtMax, fmtOrder).list,
                          fmtOut.list)
    /\ (rankPc = "done"
          /\ Cardinality({i \in DOMAIN rankIn : ~WellFormedRecord(rankIn[i])}) = 1)
        => /\ ~rankOut.raised
           /\ AllReturned(RankProducthuntResults(SelectSeq(rankIn, WellFormedRecord),
                                                 ExtractKeywordsSmart(rankQuery)).list,
                          rankOut.list)

\* C20: the 'recent' strategy of the producthunt adapter is a fallback: it
\* sends its request only when the topic-based strategy, whose records are
\* all that accResults holds at that point, returned no record.
C20_RecentOnlyAfterEmptyTopics ==
    [][SearchProducthuntRecent => accResults = <<>>]_vars

\* The elements of xs at the positions of the set K, in the order of xs.
AtPositions(xs, K) ==
    [p \in 1..Cardinality(K) |->
        xs[CHOOSE i \in K : Cardinality({j \in K : j < i}) = p - 1]]

\* C21: the de-duplicated list holds, in the original order, the first
\* record of every distinct URL, the empty URL included: a record is left
\* out only when an earlier record has its URL.
C21_KeepsFirstOfEveryUrl ==
    rankPc = "deduped" =>
        unique_results =
            AtPositions(rankIn, {i \in DOMAIN rankIn :
                                    \A j \in 1..(i - 1) : rankIn[j].url # rankIn[i].url})

\* C22: the ranking leaves the dicts of its input list as they were.
C22_RankingLeavesInputUnchanged ==
    rankPc = "done" => rankDicts = rankIn

\* C23: every record the discussion-board formatter returns has a relevance
\* above the cutoff, for every listing and every max_results.
C23_NoRecordAtOrBelowCutoff ==
    fmtPc = "done" => \A i \in DOMAIN fmtOut.list : AboveCutoff(fmtOut.list[i])

\* A token no dictionary of either translator has a phrase or a word for.
UnknownToken(word) == word.w = "xyz"

\* C24: the tokens of the input that no dictionary knows are in the output
\* unchanged (letter case included) and in the same relative order.
C24_UnknownTokensKept ==
    trPc = "done" => SelectSeq(trOut, UnknownToken) = SelectSeq(trIn, UnknownToken)

\* C25: every record the discussion-board formatter returns, and so every
\* record of the reddit list of get_context, has a non-empty title (a
\* placeholder when the post has none) and the source label of its adapter.
C25_TitleAndSourcePopulated ==
    fmtPc = "done" =>
        \A i \in DOMAIN fmtOut.list :
            fmtOut.list[i].title # <<>> /\ fmtOut.list[i].source = "Reddit"

\* C27: a cache read changes nothing in the cache, whether the key is
\* absent, live or expired; so the cache always holds, for every key ever
\* stored, the value and the timestamp of its last store: a read extends no
\* lifetime and an expired entry stays until it is overwritten.
C27_ReadLeavesCacheUnchanged ==
    /\ [][CacheRead => cache' = cache]_vars
    /\ [](/\ DOMAIN cache = DOMAIN lastStore
          /\ \A k \in DOMAIN cache :
                cache[k] = [timestamp |-> lastStore[k].t, data |-> lastStore[k].v])

\* An expired entry has been read, was reported absent and is still stored.
C27_ExpiredEntryRead ==
    /\ cLast = "read" /\ ~cRead.found
    /\ cKey \in DOMAIN cache
    /\ now - cache[cKey].timestamp >= cache_timeout

\* C29: in search_web, call_groq_api and call_google_api no sleep follows
\* the last request of an invocation: every backoff sleep is followed by
\* another attempt.
C29_NoSleepAfterLastAttempt ==
    (rpc = "done" /\ rfn \in {"search_web", "call_groq_api", "call_google_api"})
        => SleptAfterLast = 0

\* C30: the relevance the formatter gave each post of the listing is the
\* relevance it gives under every other order in which the set of query
\* terms can be enumerated.
C30_RelevanceIndependentOfTermOrder ==
    (fmtPc = "done" /\ ~fmtOut.raised) =>
        \A order \in Orders(QueryTerms(fmtQuery)) :
            \A i \in DOMAIN fmtPosts :
                fmtPosts[i].data =>
                    FormatRedditPost(fmtPosts[i], order).relevance
                        = FormatRedditPost(fmtPosts[i], fmtOrder).relevance

\* C28: the cache is written only by an adapter call all of whose requests
\* were answered with status 200: a step that changes the cache ends a
\* search without a failed request.
C28_CacheWrittenOnlyAfterSuccess ==
    [][cache' # cache => ~httpFailed']_vars

\* The places of the function f the step changes or adds.
Changed(f, g) == {x \in DOMAIN g : x \notin DOMAIN f \/ g[x] # f[x]}

====
